---- MODULE Spec2Model ----
(***************************************************************************)
(* Model of the club_angel booking server (src/server.py): the SQLite      *)
(* tables users / consoles / bookings and the Flask handlers that read and *)
(* write them.                                                             *)
(*                                                                         *)
(* Spec     : one request at a time; every handler runs to completion.     *)
(* SpecConc : several /booking and /add_playtime calls in flight, each on  *)
(*            its own SQLite connection, their statements interleaving.    *)
(***************************************************************************)
EXTENDS Integers, Sequences, FiniteSets, TLC

(***************************************************************************)
(* Bounds of the exploration.                                              *)
(***************************************************************************)
MaxBookings == 2     \* booking requests are accepted for processing while fewer rows exist
MaxPlaytime == 2     \* /add_playtime is explored while the resulting total stays within this

(***************************************************************************)
(* Text.  SQLite compares TEXT with the BINARY collation (memcmp on the    *)
(* common prefix, then length) and strptime scans it character by          *)
(* character, so both work on chars(text), the characters of the text,     *)
(* each with its ASCII code.                                               *)
(***************************************************************************)
Digits == <<"0", "1", "2", "3", "4", "5", "6", "7", "8", "9">>

IsDigit(c) == \E i \in 1..10 : Digits[i] = c

DigitVal(c) == (CHOOSE i \in 1..10 : Digits[i] = c) - 1

Ord(c) ==
    CASE c = " " -> 32
      [] c = "-" -> 45
      [] c = ":" -> 58
      [] IsDigit(c) -> 48 + DigitVal(c)
      [] OTHER -> 120

\* The texts that occur as start_time / end_time, and their characters.
T08 == "2025-10-01 08:00:00"
T9u == "2025-10-01 9:00:00"                   \* hour not zero-padded
T09 == "2025-10-01 09:00:00"
T10 == "2025-10-01 10:00:00"
TBad == "2025-10-01"                          \* no time of day
TNone == ""                                   \* field absent or ""
T0830 == "2025-10-01 08:30:00"
T0959 == "2025-10-01 09:59:59"
T1030 == "2025-10-01 10:30:00"
TNext == "2025-10-02 08:00:00"                \* the next day

Texts == {T08, T9u, T09, T10, TBad, TNone, T0830, T0959, T1030, TNext}

Date == <<"2", "0", "2", "5", "-", "1", "0", "-", "0", "1">>
Zeros == <<":", "0", "0", ":", "0", "0">>

chars(text) ==
    CASE text = "2025-10-01 08:00:00" -> Date \o <<" ", "0", "8">> \o Zeros
      [] text = "2025-10-01 9:00:00" -> Date \o <<" ", "9">> \o Zeros
      [] text = "2025-10-01 09:00:00" -> Date \o <<" ", "0", "9">> \o Zeros
      [] text = "2025-10-01 10:00:00" -> Date \o <<" ", "1", "0">> \o Zeros
      [] text = "2025-10-01" -> Date
      [] text = "" -> <<>>
      [] text = "2025-10-01 08:30:00" ->
            Date \o <<" ", "0", "8", ":", "3", "0", ":", "0", "0">>
      [] text = "2025-10-01 09:59:59" ->
            Date \o <<" ", "0", "9", ":", "5", "9", ":", "5", "9">>
      [] text = "2025-10-01 10:30:00" ->
            Date \o <<" ", "1", "0", ":", "3", "0", ":", "0", "0">>
      [] text = "2025-10-02 08:00:00" ->
            <<"2", "0", "2", "5", "-", "1", "0", "-", "0", "2", " ", "0", "8">> \o Zeros

RECURSIVE TextLessFrom(_, _, _)
TextLessFrom(a, b, i) ==
    IF i > Len(a) THEN i <= Len(b)
    ELSE IF i > Len(b) THEN FALSE
    ELSE IF Ord(a[i]) # Ord(b[i]) THEN Ord(a[i]) < Ord(b[i])
    ELSE TextLessFrom(a, b, i + 1)

\* a < b on TEXT values, as the WHERE clause of the overlap query evaluates it
\* (tabulated once over Texts)
TextOrder == [a \in Texts |-> [b \in Texts |-> TextLessFrom(chars(a), chars(b), 1)]]

TextLess(a, b) == TextOrder[a][b]

(***************************************************************************)
(* datetime.strptime(text, DATETIME_FMT) with DATETIME_FMT =               *)
(* "%Y-%m-%d %H:%M:%S".  The format compiles to the pattern                *)
(*   (\d\d\d\d)-(1[0-2]|0[1-9]|[1-9])-(3[01]|[12]\d|0[1-9]|[1-9]| [1-9])   *)
(*   \s+(2[0-3]|[0-1]\d|\d):([0-5]\d|\d):(6[0-1]|[0-5]\d|\d)               *)
(* which must match the whole text; the fields then go to datetime(),      *)
(* which rejects year 0, a day beyond the month's length and second > 59.  *)
(***************************************************************************)
At(s, i) == IF i >= 1 /\ i <= Len(s) THEN s[i] ELSE ""

RECURSIVE DigitRun(_, _)
DigitRun(s, i) == IF IsDigit(At(s, i)) THEN 1 + DigitRun(s, i + 1) ELSE 0

RECURSIVE SpaceRun(_, _)
SpaceRun(s, i) == IF At(s, i) = " " THEN 1 + SpaceRun(s, i + 1) ELSE 0

RECURSIVE Num(_, _, _)
Num(s, i, n) == IF n = 0 THEN 0 ELSE Num(s, i, n - 1) * 10 + DigitVal(s[i + n - 1])

IsLeap(y) == (y % 4 = 0) /\ ((y % 100 # 0) \/ (y % 400 = 0))

DaysInMonth(y, m) ==
    IF m = 2 THEN (IF IsLeap(y) THEN 29 ELSE 28)
    ELSE IF m \in {4, 6, 9, 11} THEN 30 ELSE 31

RECURSIVE DaysBeforeMonth(_, _)
DaysBeforeMonth(y, m) ==
    IF m <= 1 THEN 0 ELSE DaysBeforeMonth(y, m - 1) + DaysInMonth(y, m - 1)

\* datetime.toordinal(): days since 0001-01-01, counted from 1
Ordinal(y, m, d) ==
    (y - 1) * 365 + ((y - 1) \div 4) - ((y - 1) \div 100) + ((y - 1) \div 400)
        + DaysBeforeMonth(y, m) + d

NoTime == [ok |-> FALSE, day |-> 0, sec |-> 0]

\* the match of the format on the characters s of a text
strptime_chars(s) ==
    LET lm  == DigitRun(s, 6)
        im2 == 6 + lm                  \* the '-' after the month
        id  == im2 + 1
        sd  == At(s, id) = " "         \* day written as blank + digit
        ld  == IF sd THEN 2 ELSE DigitRun(s, id)
        iw  == id + ld
        lw  == SpaceRun(s, iw)
        ih  == iw + lw
        lh  == DigitRun(s, ih)
        imi == ih + lh + 1
        lmi == DigitRun(s, imi)
        is  == imi + lmi + 1
        ls  == DigitRun(s, is)
        y   == Num(s, 1, 4)
        m   == Num(s, 6, lm)
        d   == IF sd THEN DigitVal(s[id + 1]) ELSE Num(s, id, ld)
        H   == Num(s, ih, lh)
        M   == Num(s, imi, lmi)
        S   == Num(s, is, ls)
    IN  IF /\ DigitRun(s, 1) = 4 /\ At(s, 5) = "-"
           /\ lm \in {1, 2} /\ m \in 1..12 /\ At(s, im2) = "-"
           /\ IF sd THEN IsDigit(At(s, id + 1)) /\ DigitRun(s, id + 1) = 1
                    ELSE ld \in {1, 2}
           /\ d \in 1..31
           /\ lw >= 1
           /\ lh \in {1, 2} /\ H \in 0..23 /\ At(s, ih + lh) = ":"
           /\ lmi \in {1, 2} /\ M \in 0..59 /\ At(s, imi + lmi) = ":"
           /\ ls \in {1, 2} /\ S \in 0..61
           /\ is + ls = Len(s) + 1
           /\ y >= 1 /\ d <= DaysInMonth(y, m) /\ S <= 59
        THEN [ok |-> TRUE, day |-> Ordinal(y, m, d), sec |-> H * 3600 + M * 60 + S]
        ELSE NoTime

strptime_match(text) == strptime_chars(chars(text))

\* strptime on the texts of the model (tabulated once over Texts)
Parsed == [text \in Texts |-> strptime_match(text)]

strptime(text) == Parsed[text]

\* mutant: '<' for '<='
TimeLeqStrict(t2, t1) == t2.day < t1.day \/ (t2.day = t1.day /\ t2.sec < t1.sec)

\* t2 <= t1 on datetime values
TimeLeq(t2, t1) == t2.day < t1.day \/ (t2.day = t1.day /\ t2.sec <= t1.sec)

\* (t2 - t1).total_seconds()
total_seconds(t1, t2) == (t2.day - t1.day) * 86400 + (t2.sec - t1.sec)

\* mutant: the alternative left commented out in the handler, math.ceil(seconds / 3600)
added_hours_ceil(t1, t2) ==
    LET h == (total_seconds(t1, t2) + 3599) \div 3600
    IN  IF h <= 0 THEN 1 ELSE h

\* added_hours: whole hours of the interval, at least 1
added_hours_of(t1, t2) ==
    LET h == total_seconds(t1, t2) \div 3600
    IN  IF h <= 0 THEN 1 ELSE h

(***************************************************************************)
(* Request inputs.                                                         *)
(***************************************************************************)
\* (start_time, end_time) pairs: the five intervals the four instants allow, one of
\* them two hours long; end = start, end < start and end = start spelled differently;
\* a text that does not parse and an absent field, on either side.
TimePairs ==
    {<<T08, T9u>>, <<T08, T09>>, <<T08, T10>>, <<T9u, T10>>, <<T09, T10>>,
     <<T08, T08>>, <<T10, T08>>, <<T9u, T09>>,
     <<TBad, T10>>, <<T08, TBad>>, <<TNone, T10>>, <<T08, TNone>>}
UserInputs == {"alice", "bob", ""}            \* "" : field absent or empty
ConsoleInputs == {0, 1, 2, 6}                 \* 0 is falsy; 6 is not a console
HourInputs == {-1, 0, 2}                       \* int(hours): negative, zero, positive

NumConsoles == 5                              \* "PS 1" .. "PS 5", seeded by init_db

Req(op, username, password, console_id, start_time, end_time, hours) ==
    [op |-> op, username |-> username, password |-> password,
     console_id |-> console_id, start_time |-> start_time, end_time |-> end_time,
     hours |-> hours]

NoRequest == Req("none", "", "", 0, "", "", 0)

BookingRequests ==
    {Req("booking", u, "", c, p[1], p[2], 0) :
        u \in UserInputs, c \in ConsoleInputs, p \in TimePairs}

RegisterRequests ==
    {Req("register", u, pw, 0, "", "", 0) : u \in UserInputs, pw \in {"", "pw"}}

AddPlaytimeRequests ==
    {Req("add_playtime", u, "", 0, "", "", h) : u \in UserInputs, h \in HourInputs}

ReadRequests ==
    {Req(op, u, "", 0, "", "", 0) :
        op \in {"get_profile", "update_profile", "playtime"}, u \in UserInputs}
    \cup {Req("consoles", "", "", 0, "", "", 0), Req("bookings", "", "", 0, "", "", 0)}

Requests == BookingRequests \cup RegisterRequests \cup AddPlaytimeRequests \cup ReadRequests

(***************************************************************************)
(* Responses: HTTP status, the message or error text, the number carried   *)
(* (added_hours, play_time, playtime, user_id) and, for listings, the ids  *)
(* of the rows in the order returned.                                      *)
(***************************************************************************)
Resp(status, body, value, rows) ==
    [status |-> status, body |-> body, value |-> value, rows |-> rows]

NoResponse == Resp(0, "", 0, <<>>)

ErrRequired == Resp(400, "username, console_id, start_time, end_time required", 0, <<>>)
ErrFormat == Resp(400, "time format must be '%Y-%m-%d %H:%M:%S'", 0, <<>>)
ErrInterval == Resp(400, "end_time must be after start_time", 0, <<>>)
ErrNoUser == Resp(404, "user not found", 0, <<>>)
ErrNoConsole == Resp(404, "console not found", 0, <<>>)
ErrBooked == Resp(400, "console already booked in this time range", 0, <<>>)
ErrLocked == Resp(500, "database is locked", 0, <<>>)
ErrStore == Resp(500, "store failure", 0, <<>>)
BookingSaved(h) == Resp(200, "booking saved", h, <<>>)

(***************************************************************************)
(* State.                                                                  *)
(***************************************************************************)
VARIABLES
    users,      \* table users: row i has id i; columns username, playtime
    bookings,   \* table bookings, committed rows in rowid order
    now,        \* CURRENT_TIMESTAMP, in whole seconds
    request,    \* Spec: the request being served (NoRequest when idle)
    response,   \* Spec: its response (NoResponse until the handler returns)
    calls,      \* SpecConc: per worker, the call in flight
    lock,       \* SpecConc: SQLite's write lock: "free", "held" by the call that is
                \* past its first write, or "leaked" with a connection left open
    tx          \* SpecConc: uncommitted writes of the lock holder

vars == <<users, bookings, now, request, response, calls, lock, tx>>

db == <<users, bookings, now>>
conc == <<calls, lock, tx>>

consoles == 1..NumConsoles

(***************************************************************************)
(* SQL statements of the handlers, on table values.                        *)
(***************************************************************************)
\* mutant: an unknown username is given the next free id
select_user_id_or_next(U, username) ==
    IF \E i \in 1..Len(U) : U[i].username = username
    THEN CHOOSE i \in 1..Len(U) : U[i].username = username
    ELSE Len(U) + 1

\* SELECT id FROM users WHERE username = ?   (0: no row)
select_user_id(U, username) ==
    IF \E i \in 1..Len(U) : U[i].username = username
    THEN CHOOSE i \in 1..Len(U) : U[i].username = username
    ELSE 0

\* mutant: any positive id passes
select_console_any(console_id) == console_id > 0

\* SELECT id FROM consoles WHERE id = ?
select_console(console_id) == console_id \in consoles

\* SELECT 1 FROM bookings WHERE console_id = ? AND start_time < ? AND end_time > ? LIMIT 1
select_conflict(B, console_id, end_time, start_time) ==
    \E i \in 1..Len(B) :
        /\ B[i].console_id = console_id
        /\ TextLess(B[i].start_time, end_time)
        /\ TextLess(start_time, B[i].end_time)

\* mutant: INSERT OR REPLACE keyed on the console
insert_or_replace(B, user_id, console_id, start_time, end_time, ts) ==
    Append(SelectSeq(B, LAMBDA b : b.console_id # console_id),
           [id |-> Len(B) + 1, user_id |-> user_id, console_id |-> console_id,
            start_time |-> start_time, end_time |-> end_time, created_at |-> ts])

\* mutant: the id of the latest row is given again
insert_reusing_id(B, user_id, console_id, start_time, end_time, ts) ==
    Append(B, [id |-> IF Len(B) = 0 THEN 1 ELSE B[Len(B)].id,
               user_id |-> user_id, console_id |-> console_id,
               start_time |-> start_time, end_time |-> end_time, created_at |-> ts])

\* INSERT INTO bookings (user_id, console_id, start_time, end_time) VALUES (?, ?, ?, ?)
insert_booking(B, user_id, console_id, start_time, end_time, ts) ==
    Append(B, [id |-> Len(B) + 1, user_id |-> user_id, console_id |-> console_id,
               start_time |-> start_time, end_time |-> end_time, created_at |-> ts])

\* mutant: the WHERE clause is missing
update_playtime_all(U, hours, user_id) ==
    [i \in 1..Len(U) |-> [U[i] EXCEPT !.playtime = @ + hours]]

\* UPDATE users SET playtime = playtime + ? WHERE id = ?
update_playtime_by_id(U, hours, user_id) ==
    [i \in 1..Len(U) |->
        IF i = user_id THEN [U[i] EXCEPT !.playtime = @ + hours] ELSE U[i]]

\* mutant: SET playtime = ?
set_playtime_by_name(U, hours, username) ==
    [i \in 1..Len(U) |->
        IF U[i].username = username THEN [U[i] EXCEPT !.playtime = hours] ELSE U[i]]

\* UPDATE users SET playtime = playtime + ? WHERE username = ?
update_playtime_by_name(U, hours, username) ==
    [i \in 1..Len(U) |->
        IF U[i].username = username THEN [U[i] EXCEPT !.playtime = @ + hours] ELSE U[i]]

\* INSERT INTO users (username, password_hash) VALUES (?, ?)
insert_user(U, username) == Append(U, [username |-> username, playtime |-> 0])

(***************************************************************************)
(* booking(): the checks made before a connection is opened.               *)
(* NoResponse means the request goes on to the database.                   *)
(***************************************************************************)
\* mutant: the intervals are compared before the texts are known to parse
validate_interval_first(req) ==
    IF req.username = "" \/ req.console_id = 0
       \/ req.start_time = "" \/ req.end_time = ""
    THEN ErrRequired
    ELSE IF TimeLeq(strptime(req.end_time), strptime(req.start_time))
    THEN ErrInterval
    ELSE IF ~strptime(req.start_time).ok \/ ~strptime(req.end_time).ok
    THEN ErrFormat
    ELSE NoResponse

validate(req) ==
    IF req.username = "" \/ req.console_id = 0
       \/ req.start_time = "" \/ req.end_time = ""
    THEN ErrRequired
    ELSE IF ~strptime(req.start_time).ok \/ ~strptime(req.end_time).ok
    THEN ErrFormat
    ELSE IF TimeLeq(strptime(req.end_time), strptime(req.start_time))
    THEN ErrInterval
    ELSE NoResponse

added_hours(req) == added_hours_of(strptime(req.start_time), strptime(req.end_time))

\* mutant: the console is looked up before the user
booking_console_first(req, U, B, ts) ==
    LET user_id == select_user_id(U, req.username)
        same(r) == [resp |-> r, users |-> U, bookings |-> B]
    IN  IF validate(req) # NoResponse THEN same(validate(req))
        ELSE IF ~select_console(req.console_id) THEN same(ErrNoConsole)
        ELSE IF user_id = 0 THEN same(ErrNoUser)
        ELSE IF select_conflict(B, req.console_id, req.end_time, req.start_time)
        THEN same(ErrBooked)
        ELSE [resp |-> BookingSaved(added_hours(req)),
              users |-> update_playtime_by_id(U, added_hours(req), user_id),
              bookings |-> insert_booking(B, user_id, req.console_id,
                                          req.start_time, req.end_time, ts)]

\* booking() run to completion on tables U, B at time ts:
\* the response and the tables it leaves.
booking(req, U, B, ts) ==
    LET user_id == select_user_id(U, req.username)
        same(r) == [resp |-> r, users |-> U, bookings |-> B]
    IN  IF validate(req) # NoResponse THEN same(validate(req))
        ELSE IF user_id = 0 THEN same(ErrNoUser)
        ELSE IF ~select_console(req.console_id) THEN same(ErrNoConsole)
        ELSE IF select_conflict(B, req.console_id, req.end_time, req.start_time)
        THEN same(ErrBooked)
        ELSE [resp |-> BookingSaved(added_hours(req)),
              users |-> update_playtime_by_id(U, added_hours(req), user_id),
              bookings |-> insert_booking(B, user_id, req.console_id,
                                          req.start_time, req.end_time, ts)]

(***************************************************************************)
(* The other handlers, run to completion: response and tables left.        *)
(***************************************************************************)
register(req, U) ==
    IF req.username = "" \/ req.password = ""
    THEN [resp |-> Resp(400, "username and password required", 0, <<>>), users |-> U]
    ELSE IF select_user_id(U, req.username) # 0      \* UNIQUE(username): IntegrityError
    THEN [resp |-> Resp(400, "username already exists", 0, <<>>), users |-> U]
    ELSE [resp |-> Resp(201, "user created", Len(U) + 1, <<>>),
          users |-> insert_user(U, req.username)]

add_playtime(req, U) ==
    IF req.username = "" \/ req.hours <= 0
    THEN [resp |-> Resp(400, "username and positive hours required", 0, <<>>), users |-> U]
    ELSE [resp |-> Resp(200, "hours added", req.hours, <<>>),
          users |-> update_playtime_by_name(U, req.hours, req.username)]

playtime(req, U) ==
    IF req.username = "" THEN Resp(400, "username required", 0, <<>>)
    ELSE IF select_user_id(U, req.username) = 0 THEN ErrNoUser
    ELSE Resp(200, "play_time", U[select_user_id(U, req.username)].playtime, <<>>)

get_profile(req, U) ==
    IF req.username = "" THEN Resp(400, "username required", 0, <<>>)
    ELSE IF select_user_id(U, req.username) = 0 THEN ErrNoUser
    ELSE Resp(200, "profile", U[select_user_id(U, req.username)].playtime, <<>>)

\* writes email and phone only, which are no part of the tables modelled
update_profile(req) ==
    IF req.username = "" THEN Resp(400, "username required", 0, <<>>)
    ELSE Resp(200, "profile updated", 0, <<>>)

\* SELECT id, name FROM consoles ORDER BY id
list_consoles == Resp(200, "consoles", 0, [i \in 1..NumConsoles |-> i])

\* SELECT ... FROM bookings b JOIN users u .. JOIN consoles c .. ORDER BY b.created_at DESC:
\* the listings SQL allows; rows with equal created_at may come in any order
list_bookings(B) ==
    {Resp(200, "bookings", 0, s) : s \in
        {s \in [1..Len(B) -> 1..Len(B)] :
            /\ \A i, j \in 1..Len(B) : i # j => s[i] # s[j]
            /\ \A i, j \in 1..Len(B) :
                   i < j => B[s[i]].created_at >= B[s[j]].created_at}}

(***************************************************************************)
(* Spec: requests served one at a time.                                    *)
(***************************************************************************)
Init ==
    /\ users = <<>>
    /\ bookings = <<>>
    /\ now = 0
    /\ request = NoRequest
    /\ response = NoResponse
    /\ calls = <<>>
    /\ lock = "free"
    /\ tx = <<>>

\* the requests explored from the present tables
Explored(req, U, B) ==
    /\ req.op = "booking" => Len(B) < MaxBookings
    /\ req.op = "add_playtime" =>
          \A i \in 1..Len(U) :
              U[i].username = req.username => U[i].playtime + req.hours <= MaxPlaytime

Idle == request = NoRequest

\* one call: the handler runs on req and leaves its response
Booking(req) ==
    /\ Idle /\ Explored(req, users, bookings)
    /\ LET r == booking(req, users, bookings, now)
       IN  /\ response' = r.resp
           /\ users' = r.users
           /\ bookings' = r.bookings
    /\ request' = req
    /\ UNCHANGED <<now, conc>>

Register(req) ==
    /\ Idle
    /\ LET r == register(req, users)
       IN  response' = r.resp /\ users' = r.users
    /\ request' = req
    /\ UNCHANGED <<bookings, now, conc>>

AddPlaytime(req) ==
    /\ Idle /\ Explored(req, users, bookings)
    /\ LET r == add_playtime(req, users)
       IN  response' = r.resp /\ users' = r.users
    /\ request' = req
    /\ UNCHANGED <<bookings, now, conc>>

Read(req) ==
    /\ Idle
    /\ response' \in
          CASE req.op = "playtime" -> {playtime(req, users)}
            [] req.op = "get_profile" -> {get_profile(req, users)}
            [] req.op = "update_profile" -> {update_profile(req)}
            [] req.op = "consoles" -> {list_consoles}
            [] req.op = "bookings" -> list_bookings(bookings)
    /\ request' = req
    /\ UNCHANGED <<db, conc>>

\* the response is sent; the server is idle again
Return ==
    /\ ~Idle
    /\ request' = NoRequest
    /\ response' = NoResponse
    /\ UNCHANGED <<db, conc>>

Next ==
    \/ \E req \in BookingRequests : Booking(req)
    \/ \E req \in RegisterRequests : Register(req)
    \/ \E req \in AddPlaytimeRequests : AddPlaytime(req)
    \/ \E req \in ReadRequests : Read(req)
    \/ Return

Spec == Init /\ [][Next]_vars

(***************************************************************************)
(* SpecClock: requests served one at a time while the clock runs.  Under   *)
(* Spec and SpecConc every INSERT falls in one second of CURRENT_TIMESTAMP; *)
(* here seconds pass between calls, so that created_at differs from row to *)
(* row or not.  The requests are the ones that fill and list the ledger.   *)
(***************************************************************************)
MaxNow == 2

ClockRequests ==
    {Req("booking", "alice", "", c, p[1], p[2], 0) :
        c \in {1, 2}, p \in {<<T08, T09>>, <<T09, T10>>}}
    \cup {Req("register", "alice", "pw", 0, "", "", 0),
          Req("bookings", "", "", 0, "", "", 0)}

\* a second passes
Tick ==
    /\ Idle /\ now < MaxNow
    /\ now' = now + 1
    /\ UNCHANGED <<users, bookings, request, response, conc>>

NextClock ==
    \/ Tick
    \/ \E req \in ClockRequests :
          \/ req.op = "booking" /\ Booking(req)
          \/ req.op = "register" /\ Register(req)
          \/ req.op = "bookings" /\ Read(req)
    \/ Return

SpecClock == Init /\ [][NextClock]_vars

(***************************************************************************)
(* SpecHours: bookings of many lengths, served one at a time: half an hour, *)
(* one hour, one second short of two hours, two hours, two and a half,     *)
(* a day, and one second.                                                  *)
(***************************************************************************)
HoursPairs ==
    {<<T08, T0830>>, <<T08, T09>>, <<T08, T0959>>, <<T08, T10>>, <<T08, T1030>>,
     <<T08, TNext>>, <<T0959, T10>>}

HoursRequests ==
    {Req("booking", "alice", "", c, p[1], p[2], 0) : c \in {1, 2}, p \in HoursPairs}
    \cup {Req("register", "alice", "pw", 0, "", "", 0)}

NextHours ==
    \/ \E req \in HoursRequests :
          \/ req.op = "booking" /\ Booking(req)
          \/ req.op = "register" /\ Register(req)
    \/ Return

SpecHours == Init /\ [][NextHours]_vars

(***************************************************************************)
(* SpecConc: calls in flight on worker threads.  Each call opens its own   *)
(* connection (get_db_connection) and runs its statements one by one:      *)
(*  - a SELECT reads the committed tables;                                 *)
(*  - the first INSERT / UPDATE of a connection begins a transaction and   *)
(*    takes SQLite's write lock; while another connection holds it the     *)
(*    statement waits, and after the busy timeout raises "database is      *)
(*    locked";                                                             *)
(*  - the writes stay private to the connection until conn.commit()        *)
(*    installs them together and releases the lock;                        *)
(*  - an exception ends the handler in its except clause, which neither    *)
(*    rolls back nor closes: the connection keeps its transaction and the  *)
(*    lock until the garbage collector finalises it, which rolls back.     *)
(***************************************************************************)
NumWorkers == 2

Workers == 1..NumWorkers

\* two overlapping intervals on console 1 for alice, and one request for each way
\* a call can end early: interval reversed, user unknown, console unknown
ConcBookingRequests ==
    {Req("booking", "alice", "", 1, T08, T10, 0),
     Req("booking", "alice", "", 1, T09, T10, 0),
     Req("booking", "alice", "", 1, T10, T08, 0),
     Req("booking", "carol", "", 1, T08, T10, 0),
     Req("booking", "alice", "", 6, T08, T10, 0)}

ConcAddRequests ==
    {Req("add_playtime", "alice", "", 0, "", "", 1),
     Req("add_playtime", "carol", "", 0, "", "", 1),
     Req("add_playtime", "alice", "", 0, "", "", 0),
     Req("add_playtime", "alice", "", 0, "", "", -1)}

ConcReadRequests == {Req("playtime", u, "", 0, "", "", 0) : u \in {"alice", "carol"}}

NoCall == [pc |-> "idle", req |-> NoRequest, user_id |-> 0]
NoTx == [users |-> <<>>, bookings |-> <<>>]

\* alice and bob are registered, nobody else
InitConc ==
    /\ users = <<[username |-> "alice", playtime |-> 0], [username |-> "bob", playtime |-> 0]>>
    /\ bookings = <<>>
    /\ now = 0
    /\ request = NoRequest
    /\ response = NoResponse
    /\ calls = [p \in Workers |-> NoCall]
    /\ lock = "free"
    /\ tx = NoTx

BookingPcs == {"user", "console", "overlap", "insert", "update", "commit"}

InFlight(pcs) == Cardinality({q \in Workers : calls[q].pc \in pcs})

\* hours that /add_playtime calls in flight are about to add for username
PendingHours(username) ==
    LET S == {q \in Workers : /\ calls[q].pc \in {"add_update", "add_commit"}
                             /\ calls[q].req.username = username}
        RECURSIVE Sum(_)
        Sum(T) == IF T = {} THEN 0
                  ELSE LET q == CHOOSE q \in T : TRUE
                       IN  calls[q].req.hours + Sum(T \ {q})
    IN  Sum(S)

\* the handler of worker p returns r
Returns(p, r) ==
    /\ response' = r
    /\ calls' = [calls EXCEPT ![p] = NoCall]

Goto(p, pc) == calls' = [calls EXCEPT ![p].pc = pc]

\* booking(), lines 217-250: the request is checked and a connection opened
StartBooking(p, req) ==
    /\ calls[p].pc = "idle"
    /\ Len(bookings) + InFlight(BookingPcs) < MaxBookings
    /\ IF validate(req) # NoResponse
       THEN response' = validate(req) /\ UNCHANGED calls
       ELSE /\ calls' = [calls EXCEPT ![p] = [pc |-> "user", req |-> req, user_id |-> 0]]
            /\ UNCHANGED response
    /\ UNCHANGED <<db, request, lock, tx>>

\* lines 253-258
SelectUser(p) ==
    /\ calls[p].pc = "user"
    /\ LET user_id == select_user_id(users, calls[p].req.username)
       IN  IF user_id = 0
           THEN Returns(p, ErrNoUser)
           ELSE /\ calls' = [calls EXCEPT ![p].pc = "console", ![p].user_id = user_id]
                /\ UNCHANGED response
    /\ UNCHANGED <<db, request, lock, tx>>

\* lines 261-265
SelectConsole(p) ==
    /\ calls[p].pc = "console"
    /\ IF ~select_console(calls[p].req.console_id)
       THEN Returns(p, ErrNoConsole)
       ELSE Goto(p, "overlap") /\ UNCHANGED response
    /\ UNCHANGED <<db, request, lock, tx>>

\* lines 268-278
SelectConflict(p) ==
    /\ calls[p].pc = "overlap"
    /\ IF select_conflict(bookings, calls[p].req.console_id,
                          calls[p].req.end_time, calls[p].req.start_time)
       THEN Returns(p, ErrBooked)
       ELSE Goto(p, "insert") /\ UNCHANGED response
    /\ UNCHANGED <<db, request, lock, tx>>

\* mutant: the connection is in autocommit mode, the INSERT is committed at once
InsertAutocommit(p) ==
    /\ calls[p].pc = "insert"
    /\ lock = "free"
    /\ bookings' = insert_booking(bookings, calls[p].user_id,
                        calls[p].req.console_id, calls[p].req.start_time,
                        calls[p].req.end_time, now)
    /\ lock' = "held"
    /\ tx' = [users |-> users, bookings |-> bookings']
    /\ calls' = [calls EXCEPT ![p].pc = "update"]
    /\ UNCHANGED <<users, now, request, response>>

\* lines 281-284: the INSERT begins the transaction
Insert(p) ==
    /\ calls[p].pc = "insert"
    /\ lock = "free"
    /\ lock' = "held"
    /\ tx' = [users |-> users,
              bookings |-> insert_booking(bookings, calls[p].user_id,
                               calls[p].req.console_id, calls[p].req.start_time,
                               calls[p].req.end_time, now)]
    /\ Goto(p, "update")
    /\ UNCHANGED <<db, request, response>>

\* line 286
Update(p) ==
    /\ calls[p].pc = "update"
    /\ tx' = [tx EXCEPT !.users =
                 update_playtime_by_id(@, added_hours(calls[p].req), calls[p].user_id)]
    /\ Goto(p, "commit")
    /\ UNCHANGED <<db, request, response, lock>>

\* add_playtime(), lines 307-314
StartAdd(p, req) ==
    /\ calls[p].pc = "idle"
    /\ \A i \in 1..Len(users) :
          users[i].username = req.username =>
              users[i].playtime + PendingHours(req.username) + req.hours <= MaxPlaytime
    /\ IF req.username = "" \/ req.hours <= 0
       THEN response' = add_playtime(req, users).resp /\ UNCHANGED calls
       ELSE /\ calls' = [calls EXCEPT ![p] = [pc |-> "add_update", req |-> req, user_id |-> 0]]
            /\ UNCHANGED response
    /\ UNCHANGED <<db, request, lock, tx>>

\* mutant: the UPDATE does not wait for the write lock and writes over the
\* transaction of another call
AddUpdateShared(p) ==
    /\ calls[p].pc = "add_update"
    /\ lock' = "held"
    /\ tx' = [users |-> update_playtime_by_name(users, calls[p].req.hours,
                                                 calls[p].req.username),
              bookings |-> bookings]
    /\ Goto(p, "add_commit")
    /\ UNCHANGED <<db, request, response>>

\* line 316: the UPDATE begins the transaction
AddUpdate(p) ==
    /\ calls[p].pc = "add_update"
    /\ lock = "free"
    /\ lock' = "held"
    /\ tx' = [users |-> update_playtime_by_name(users, calls[p].req.hours,
                                                 calls[p].req.username),
              bookings |-> bookings]
    /\ Goto(p, "add_commit")
    /\ UNCHANGED <<db, request, response>>

\* lines 288-293 and 317-320: conn.commit(), conn.close(), the 200 response
Commit(p) ==
    /\ calls[p].pc \in {"commit", "add_commit"}
    /\ users' = tx.users
    /\ bookings' = tx.bookings
    /\ lock' = "free"
    /\ tx' = NoTx
    /\ Returns(p, IF calls[p].pc = "commit"
                  THEN BookingSaved(added_hours(calls[p].req))
                  ELSE Resp(200, "hours added", calls[p].req.hours, <<>>))
    /\ UNCHANGED <<now, request>>

\* the write statement finds the lock taken and gives up after the busy timeout:
\* OperationalError, caught at lines 295-297 / 321-323
Busy(p) ==
    /\ calls[p].pc \in {"insert", "add_update"}
    /\ lock # "free"
    /\ Returns(p, ErrLocked)
    /\ UNCHANGED <<db, request, lock, tx>>

\* the store fails after the first write (UPDATE or commit raises): the except
\* clause answers 500 and leaves the connection open with its transaction
Fail(p) ==
    /\ calls[p].pc \in {"update", "commit", "add_commit"}
    /\ lock' = "leaked"
    /\ Returns(p, ErrStore)
    /\ UNCHANGED <<db, request, tx>>

\* the leaked connection is finalised: its transaction is rolled back
Collect ==
    /\ lock = "leaked"
    /\ lock' = "free"
    /\ tx' = NoTx
    /\ UNCHANGED <<db, request, response, calls>>

\* the server process dies: every call in flight is lost, and SQLite rolls back
\* the unfinished transaction from its journal when the file is next opened
Crash ==
    /\ lock # "free" \/ \E p \in Workers : calls[p].pc # "idle"
    /\ calls' = [p \in Workers |-> NoCall]
    /\ lock' = "free"
    /\ tx' = NoTx
    /\ response' = NoResponse
    /\ UNCHANGED <<db, request>>

\* playtime(), one SELECT
ReadPlaytime(req) ==
    /\ response' = playtime(req, users)
    /\ UNCHANGED <<db, request, calls, lock, tx>>

NextConc ==
    \/ \E p \in Workers, req \in ConcBookingRequests : StartBooking(p, req)
    \/ \E p \in Workers : SelectUser(p)
    \/ \E p \in Workers : SelectConsole(p)
    \/ \E p \in Workers : SelectConflict(p)
    \/ \E p \in Workers : Insert(p)
    \/ \E p \in Workers : Update(p)
    \/ \E p \in Workers, req \in ConcAddRequests : StartAdd(p, req)
    \/ \E p \in Workers : AddUpdate(p)
    \/ \E p \in Workers : Commit(p)
    \/ \E p \in Workers : Busy(p)
    \/ \E p \in Workers : Fail(p)
    \/ Collect
    \/ Crash
    \/ \E req \in ConcReadRequests : ReadPlaytime(req)

SpecConc == InitConc /\ [][NextConc]_vars

(***************************************************************************)
(* Vocabulary of the claims.                                               *)
(***************************************************************************)
InvalidInput(r) == r = ErrRequired \/ r = ErrFormat
InvalidInterval(r) == r = ErrInterval
UnknownUser(r) == r = ErrNoUser
UnknownResource(r) == r = ErrNoConsole
Conflict(r) == r = ErrBooked
Accepted(r) == r.status = 200 /\ r.body = "booking saved"

\* the four fields are there (a falsy value counts as absent) and both times parse
WellFormed(req) ==
    /\ req.username # "" /\ req.console_id # 0
    /\ req.start_time # "" /\ req.end_time # ""
    /\ strptime(req.start_time).ok /\ strptime(req.end_time).ok

UserExists(U, username) == \E i \in 1..Len(U) : U[i].username = username

\* instant t1 is strictly before instant t2
Before(t1, t2) == t1.day < t2.day \/ (t1.day = t2.day /\ t1.sec < t2.sec)

\* [a.start, a.end) and [b.start, b.end) share an instant
Overlap(a, b) ==
    /\ Before(strptime(a.start_time), strptime(b.end_time))
    /\ Before(strptime(b.start_time), strptime(a.end_time))

\* a booking call is being answered in this step
Reserve == Idle /\ request'.op = "booking"

\* end > start as instants
EndAfterStart(req) == Before(strptime(req.start_time), strptime(req.end_time))

\* the delta of the accrual policy: whole hours of the interval, at least one
PolicyDelta(req) ==
    LET secs == total_seconds(strptime(req.start_time), strptime(req.end_time))
    IN  IF secs \div 3600 >= 1 THEN secs \div 3600 ELSE 1

\* req touches a booking of its console at a boundary and strictly overlaps none
AdjacentOnly(req, B) ==
    /\ \E i \in 1..Len(B) :
          /\ B[i].console_id = req.console_id
          /\ \/ strptime(req.start_time) = strptime(B[i].end_time)
             \/ strptime(req.end_time) = strptime(B[i].start_time)
    /\ \A i \in 1..Len(B) : B[i].console_id = req.console_id => ~Overlap(req, B[i])

(***************************************************************************)
(* Claims checked under Spec.                                              *)
(***************************************************************************)

\* C2: with calls served one at a time, no two bookings recorded on one console
\* have overlapping half-open intervals [start, end).
C2_NoOverlapSequential ==
    \A i, j \in 1..Len(bookings) :
        (i # j /\ bookings[i].console_id = bookings[j].console_id)
            => ~Overlap(bookings[i], bookings[j])

\* C3: a valid request by an existing user on an existing console that only
\* touches the console's bookings at a boundary is accepted.
C3_AdjacentAccepted ==
    [][(/\ Reserve
        /\ WellFormed(request') /\ EndAfterStart(request')
        /\ UserExists(users, request'.username)
        /\ request'.console_id \in consoles
        /\ AdjacentOnly(request', bookings))
       => Accepted(response')]_vars

\* C4: a well-formed request with end <= start fails with InvalidInterval, for
\* any user and console id and any tables, and writes nothing.
C4_InvalidInterval ==
    [][(Reserve /\ WellFormed(request') /\ ~EndAfterStart(request'))
       => (/\ InvalidInterval(response')
           /\ users' = users /\ bookings' = bookings)]_vars

\* C4 witness: start = end for an unknown user on a console that does not exist
\* was answered InvalidInterval while the ledger holds a booking.
C4_Witness ==
    /\ request.op = "booking" /\ InvalidInterval(response)
    /\ request.start_time = request.end_time
    /\ ~UserExists(users, request.username)
    /\ request.console_id \notin consoles
    /\ Len(bookings) >= 1

\* C5 as stated: a request that names a console id that is not in the registry
\* fails with UnknownResource whatever the interval, and writes nothing.
C5_UnknownResourceAlways ==
    [][(Reserve /\ request'.console_id # 0 /\ request'.console_id \notin consoles)
       => (/\ UnknownResource(response')
           /\ users' = users /\ bookings' = bookings)]_vars

\* C5 amended: a well-formed request with end > start by an existing user for a
\* console id that is not in the registry fails with UnknownResource and writes
\* nothing.
C5_UnknownResource ==
    [][(/\ Reserve
        /\ WellFormed(request') /\ EndAfterStart(request')
        /\ UserExists(users, request'.username)
        /\ request'.console_id \notin consoles)
       => (/\ UnknownResource(response')
           /\ users' = users /\ bookings' = bookings)]_vars

\* C5 witness: such a request was answered UnknownResource, its interval being
\* free and the ledger not empty.
C5_Witness ==
    /\ request.op = "booking" /\ UnknownResource(response)
    /\ UserExists(users, request.username)
    /\ request.console_id \notin consoles
    /\ Len(bookings) >= 1

\* C6: an accepted reserve appends exactly one row, the request's, and adds the
\* policy delta (>= 1) to the requesting user's playtime and to nothing else;
\* a rejected reserve leaves both tables as they were.
C6_Frame ==
    [][Reserve =>
        IF Accepted(response')
        THEN LET u == select_user_id(users, request'.username)
                 n == Len(bookings)
             IN  /\ Len(bookings') = n + 1
                 /\ SubSeq(bookings', 1, n) = bookings
                 /\ bookings'[n + 1].user_id = u
                 /\ bookings'[n + 1].console_id = request'.console_id
                 /\ bookings'[n + 1].start_time = request'.start_time
                 /\ bookings'[n + 1].end_time = request'.end_time
                 /\ u \in 1..Len(users) /\ Len(users') = Len(users)
                 /\ response'.value = PolicyDelta(request')
                 /\ users'[u].playtime = users[u].playtime + PolicyDelta(request')
                 /\ users'[u].playtime > users[u].playtime
                 /\ users'[u].username = users[u].username
                 /\ \A i \in 1..Len(users) : i # u => users'[i] = users[i]
        ELSE users' = users /\ bookings' = bookings]_vars

\* C6 witness: a two-hour booking was accepted with two users registered and a
\* booking already in the ledger.
C6_Witness ==
    /\ request.op = "booking" /\ Accepted(response) /\ response.value = 2
    /\ Len(users) = 2 /\ Len(bookings) = 2

\* C8: /add_playtime with positive hours for a username that is not registered
\* is answered UnknownUser.
C8_AddPlaytimeUnknownUser ==
    (/\ request.op = "add_playtime"
     /\ request.username # "" /\ request.hours > 0
     /\ ~UserExists(users, request.username))
    => UnknownUser(response)

\* the booking requests that pass the checks made before the database is read
ValidRequests == {req \in BookingRequests : validate(req) = NoResponse}

\* booking() answers Conflict to req on tables U, B
Conflicts(req, U, B) == Conflict(booking(req, U, B, 0).resp)

\* C9: a request that is answered Conflict is answered Conflict again whenever
\* it is resubmitted, whatever calls are served in between.
C9_ConflictPersists ==
    [][\/ UNCHANGED <<users, bookings>>
       \/ \A req \in ValidRequests :
             Conflicts(req, users, bookings) => Conflicts(req, users', bookings')]_vars

\* C9 witness: a request by one user is answered Conflict because of a booking
\* another user holds on that console, written with another start text.
C9_Witness ==
    /\ request.op = "booking" /\ Conflict(response)
    /\ Len(users) = 2 /\ Len(bookings) = 1
    /\ bookings[1].console_id = request.console_id
    /\ users[bookings[1].user_id].username # request.username
    /\ bookings[1].start_time # request.start_time

(***************************************************************************)
(* Claims checked under SpecConc.                                          *)
(***************************************************************************)

\* C1: with calls interleaving, the committed ledger never holds two bookings
\* A, B of one console with A.start < B.end and A.end > B.start.
C1_NoOverlapConcurrent ==
    \A i \in 1..Len(bookings) : \A j \in (i + 1)..Len(bookings) :
        bookings[i].console_id = bookings[j].console_id
            => ~(/\ Before(strptime(bookings[i].start_time), strptime(bookings[j].end_time))
                 /\ Before(strptime(bookings[j].start_time), strptime(bookings[i].end_time)))

\* worker p's call, which had begun writing, ends in this step
WriterEnds(p) ==
    calls[p].pc \in {"update", "commit", "add_commit"} /\ calls'[p].pc = "idle"

\* C7: the booking row and its usage increment become visible in one step: the
\* step in which the call that wrote them commits and answers 200; a call that
\* ends in an internal error, a crash and the disposal of a connection left open
\* change neither table, so no row of a failed call is ever committed.
C7_AtomicPair ==
    [][/\ bookings' # bookings =>
            LET n == Len(bookings)
                b == bookings'[n + 1]
            IN  /\ Len(bookings') = n + 1
                /\ SubSeq(bookings', 1, n) = bookings
                /\ Len(users') = Len(users)
                /\ \A i \in 1..Len(users) :
                      users'[i].playtime = users[i].playtime
                          + (IF i = b.user_id THEN PolicyDelta(b) ELSE 0)
                /\ \E p \in Workers :
                      /\ calls[p].pc = "commit" /\ calls'[p].pc = "idle"
                      /\ Accepted(response')
       /\ (\E p \in Workers : WriterEnds(p) /\ response'.status # 200)
            => (users' = users /\ bookings' = bookings)
       /\ (\A p \in Workers : calls'[p].pc = calls[p].pc)
            => (users' = users /\ bookings' = bookings)]_vars

\* C7 witness: a call failed between its INSERT and its UPDATE; the row is in the
\* transaction of the connection left open and in no committed table.
C7_Witness ==
    /\ response = ErrStore /\ lock = "leaked"
    /\ Len(tx.bookings) = Len(bookings) + 1
    /\ tx.users = users
    /\ Len(bookings) = 1

\* C10: no step of any interleaving lowers a user's playtime, and it is never
\* negative.
C10_PlaytimeMonotone ==
    [][/\ Len(users') >= Len(users)
       /\ \A i \in 1..Len(users) :
             /\ users[i].playtime >= 0
             /\ users'[i].playtime >= users[i].playtime
             /\ users'[i].username = users[i].username]_vars

\* C10 witness: alice's playtime has grown by a two-hour booking and by a direct
\* increment, while a call is in flight.
C10_Witness ==
    /\ users[1].playtime = 3
    /\ Len(bookings) = 1
    /\ \E p \in Workers : calls[p].pc # "idle"

(***************************************************************************)
(* Claims checked under SpecClock.                                         *)
(***************************************************************************)

\* C11: a listing of the bookings names them newest first: a row inserted after
\* another comes before it, also when both were inserted within one second.
C11_NewestFirst ==
    (request.op = "bookings" /\ response.status = 200)
        => \A i, j \in 1..Len(response.rows) :
               i < j => response.rows[i] > response.rows[j]

(***************************************************************************)
(* Further claims checked under Spec.                                      *)
(***************************************************************************)

\* C12 as stated: the answer to a booking request is the failure of the first
\* check it violates in the order inputs, end > start, console exists, no overlap.
C12_CheckOrderOfFour ==
    [][Reserve =>
        IF ~WellFormed(request') THEN InvalidInput(response')
        ELSE IF ~EndAfterStart(request') THEN InvalidInterval(response')
        ELSE IF request'.console_id \notin consoles THEN UnknownResource(response')
        ELSE Conflict(response') \/ Accepted(response')]_vars

\* C12 amended: the answer to a booking request is the failure of the first check
\* it violates in the order inputs, end > start, user exists, console exists, no
\* overlap.
C12_CheckOrder ==
    [][Reserve =>
        IF ~WellFormed(request') THEN InvalidInput(response')
        ELSE IF ~EndAfterStart(request') THEN InvalidInterval(response')
        ELSE IF ~UserExists(users, request'.username) THEN UnknownUser(response')
        ELSE IF request'.console_id \notin consoles THEN UnknownResource(response')
        ELSE Conflict(response') \/ Accepted(response')]_vars

\* C12 witness: a request with a start text that does not parse, end before start
\* as texts go, an unknown user and an unknown console was answered InvalidInput
\* while the ledger holds a booking.
C12_Witness ==
    /\ request.op = "booking" /\ InvalidInput(response)
    /\ request.start_time = TBad /\ request.end_time = T10
    /\ request.username # "" /\ ~UserExists(users, request.username)
    /\ request.console_id # 0 /\ request.console_id \notin consoles
    /\ Len(bookings) >= 1

\* text is written exactly as YYYY-MM-DD HH:MM:SS: nineteen characters, digits
\* zero-padded to the width of their field
ExactFormat(text) ==
    LET s == chars(text)
    IN  /\ Len(s) = 19
        /\ \A i \in 1..19 :
              IF i \in {5, 8} THEN s[i] = "-"
              ELSE IF i = 11 THEN s[i] = " "
              ELSE IF i \in {14, 17} THEN s[i] = ":"
              ELSE IsDigit(s[i])

\* C13: a booking request whose times are not written exactly as
\* YYYY-MM-DD HH:MM:SS is answered InvalidInput, and a request that reaches the
\* overlap test is answered Conflict exactly when its interval overlaps, as
\* instants, a booking recorded on its console.
C13_StringOrderIsTimeOrder ==
    [][Reserve =>
        /\ ~InvalidInput(response') =>
              (ExactFormat(request'.start_time) /\ ExactFormat(request'.end_time))
        /\ (/\ WellFormed(request') /\ EndAfterStart(request')
            /\ UserExists(users, request'.username)
            /\ request'.console_id \in consoles)
           => (Conflict(response') <=>
                 \E i \in 1..Len(bookings) :
                     /\ bookings[i].console_id = request'.console_id
                     /\ Overlap(request', bookings[i]))]_vars

(***************************************************************************)
(* Claims checked under SpecHours.                                         *)
(***************************************************************************)

\* the length of the requested interval in seconds
Seconds(req) ==
    (strptime(req.end_time).day - strptime(req.start_time).day) * 86400
        + strptime(req.end_time).sec - strptime(req.start_time).sec

\* C14: the hours an accepted booking reports and adds to the user's playtime
\* are max(1, floor(seconds / 3600)): at least 1, exactly 1 for an interval
\* shorter than two hours, the whole hours elapsed otherwise.
C14_Delta ==
    [][(Reserve /\ Accepted(response')) =>
        LET d == response'.value
            u == select_user_id(users, request'.username)
        IN  /\ d \in Nat /\ d >= 1
            /\ users'[u].playtime = users[u].playtime + d
            /\ Seconds(request') < 7200 => d = 1
            /\ Seconds(request') >= 3600 =>
                  (d * 3600 <= Seconds(request') /\ Seconds(request') < (d + 1) * 3600)]_vars

\* C14 witness: a booking of two and a half hours was accepted and reported 2
\* hours, after a booking of half an hour had added 1.
C14_Witness ==
    /\ request.op = "booking" /\ Accepted(response)
    /\ request.start_time = T08 /\ request.end_time = T1030
    /\ response.value = 2
    /\ Len(bookings) = 2 /\ bookings[1].end_time = T0830
    /\ users[1].playtime = 3

(***************************************************************************)
(* Further claims checked under Spec (continued).                          *)
(***************************************************************************)

\* the rows of B recorded for one console
OnConsole(B, console_id) == SelectSeq(B, LAMBDA b : b.console_id = console_id)

\* C15: the answer to a valid booking request by an existing user on an existing
\* console is the answer the rows of that console alone would give, and the
\* request is accepted when none of them overlaps it, whatever is recorded for
\* other consoles.
C15_OtherConsolesIrrelevant ==
    [][(/\ Reserve
        /\ WellFormed(request') /\ EndAfterStart(request')
        /\ UserExists(users, request'.username)
        /\ request'.console_id \in consoles)
       => /\ response' =
               booking(request', users,
                       OnConsole(bookings, request'.console_id), now).resp
          /\ (\A i \in 1..Len(bookings) :
                  bookings[i].console_id = request'.console_id
                      => ~Overlap(request', bookings[i]))
              => Accepted(response')]_vars

\* C16: every step keeps each recorded booking as it is, id, user, console, start
\* and end, and a row added by the step gets an id above every id recorded.
C16_AppendOnly ==
    [][/\ Len(bookings') >= Len(bookings)
       /\ \A i \in 1..Len(bookings) : bookings'[i] = bookings[i]
       /\ \A j \in (Len(bookings) + 1)..Len(bookings') :
             \A i \in 1..(j - 1) : bookings'[i].id < bookings'[j].id]_vars

\* C16 witness: two bookings of one user are recorded with ids 1 and 2, and a
\* later call has added hours to the playtime of another user.
C16_Witness ==
    /\ Len(bookings) = 2 /\ bookings[1].id = 1 /\ bookings[2].id = 2
    /\ bookings[1].user_id = bookings[2].user_id
    /\ request.op = "add_playtime" /\ response.status = 200
    /\ UserExists(users, request.username)
    /\ request.username # users[bookings[1].user_id].username

(***************************************************************************)
(* Further claims checked under SpecConc.                                  *)
(***************************************************************************)

\* the hours the bookings recorded in B for user user_id stand for
RECURSIVE BookedHours(_, _)
BookedHours(B, user_id) ==
    IF B = <<>> THEN 0
    ELSE BookedHours(Tail(B), user_id)
            + (IF Head(B).user_id = user_id THEN PolicyDelta(Head(B)) ELSE 0)

\* the hours a /add_playtime call for the user in row i, answered 200 in this
\* step, stands for
DirectHours(i) ==
    IF \E p \in Workers :
           /\ calls[p].pc = "add_commit" /\ calls'[p].pc = "idle"
           /\ calls[p].req.username = users[i].username
           /\ response'.status = 200
    THEN response'.value
    ELSE 0

\* C17: in every step of every interleaving a user's playtime grows by the
\* deltas of the bookings the step records for the user plus the hours of the
\* direct increment the step accepts for the user; so the total always is the
\* sum of the deltas of the recorded bookings and of the accepted increments.
C17_UsageAccounted ==
    [][/\ Len(users') = Len(users)
       /\ \A i \in 1..Len(users) :
             /\ users'[i].username = users[i].username
             /\ users'[i].playtime - users[i].playtime =
                    BookedHours(bookings', i) - BookedHours(bookings, i) + DirectHours(i)
             /\ users[i].playtime >= BookedHours(bookings, i)]_vars

\* C17 witness: a direct increment of alice that began before her two bookings
\* were committed is committed after them: 2 + 1 hours booked and 1 added.
C17_Witness ==
    /\ Len(bookings) = 2
    /\ bookings[1].user_id = 1 /\ bookings[2].user_id = 1
    /\ {bookings[1].start_time, bookings[2].start_time} = {T08, T09}
    /\ users[1].playtime = 4
    /\ response = Resp(200, "hours added", 1, <<>>)

(***************************************************************************)
(* Further claims checked under Spec (rows and precedence).                *)
(***************************************************************************)

\* C18: every recorded booking ends strictly after it starts, as instants, and
\* names a registered user and a console of the registry.
C18_RowsValid ==
    \A i \in 1..Len(bookings) :
        /\ Before(strptime(bookings[i].start_time), strptime(bookings[i].end_time))
        /\ bookings[i].user_id \in 1..Len(users)
        /\ bookings[i].console_id \in consoles

\* C18 witness: the second user has just booked the second console, the ledger
\* holding a booking of the first console by the first user.
C18_Witness ==
    /\ request.op = "booking" /\ Accepted(response)
    /\ Len(bookings) = 2
    /\ bookings[1].user_id = 1 /\ bookings[1].console_id = 1
    /\ bookings[2].user_id = 2 /\ bookings[2].console_id = 2

\* C19: a well-formed booking request with end > start whose username is not
\* registered is answered UnknownUser, whether or not its console exists or its
\* interval is taken, and writes nothing.
C19_UnknownUserFirst ==
    [][(/\ Reserve
        /\ WellFormed(request') /\ EndAfterStart(request')
        /\ ~UserExists(users, request'.username))
       => (/\ UnknownUser(response')
           /\ users' = users /\ bookings' = bookings)]_vars

\* C19 witness: an unregistered user asked for an interval that is recorded, text
\* for text, on the console asked for, and was answered UnknownUser.
C19_Witness ==
    /\ request.op = "booking" /\ UnknownUser(response)
    /\ \E i \in 1..Len(bookings) :
          /\ bookings[i].console_id = request.console_id
          /\ bookings[i].start_time = request.start_time
          /\ bookings[i].end_time = request.end_time

====
